---- MODULE Spec2Model ----
(***************************************************************************)
(* Model of novelwriter/formats/toqdoc.py: the ToQTextDocument converter.  *)
(* The output QTextDocument is a sequence of paragraphs, each a block      *)
(* format plus the runs (text, character format) inserted into it.  Text   *)
(* is a sequence of characters; "NL" is the line feed, "LSEP" the unicode  *)
(* line separator, "NBSP" the non-breaking space and "BR" the heading      *)
(* line-break marker nwHeadFmt.BR.                                         *)
(***************************************************************************)
EXTENDS Integers, Sequences, FiniteSets, TLC

\* ---------------------------------------------------------------------------
\* Bounds of the model
\* ---------------------------------------------------------------------------
MaxBlocks == 2
MaxCalls == 4

\* ---------------------------------------------------------------------------
\* Generic helpers
\* ---------------------------------------------------------------------------
Min(a, b) == IF a < b THEN a ELSE b

\* The slice taken one character late: s[a+1:b+1].
PySliceShifted(s, a, b) ==
    IF a + 1 >= b + 1 \/ a + 1 >= Len(s) THEN <<>>
    ELSE SubSeq(s, a + 2, IF b + 1 < Len(s) THEN b + 1 ELSE Len(s))

\* Python slice s[a:b] for offsets a, b >= 0 (clamped, empty when a >= b).
PySlice(s, a, b) ==
    LET lo == Min(a, Len(s))
        hi == Min(b, Len(s))
    IN  IF lo >= hi THEN <<>> ELSE SubSeq(s, lo + 1, hi)

\* Nothing is left of the buffer.
PyTailDropped(s, a) == <<>>

\* Python slice s[a:].
PyTail(s, a) == PySlice(s, a, Len(s))

\* str.replace of one character by another.
Replace(s, old, new) == [i \in 1..Len(s) |-> IF s[i] = old THEN new ELSE s[i]]

\* Decimal digits of a natural number as characters, most significant first
\* (Python str(n) and the "d" presentation type).
DigitChars == <<"0", "1", "2", "3", "4", "5", "6", "7", "8", "9">>
RECURSIVE Digits(_)
Digits(n) ==
    IF n < 10 THEN <<DigitChars[n + 1]>>
    ELSE Append(Digits(n \div 10), DigitChars[(n % 10) + 1])

Unpadded(n) == Digits(n)

\* Python format spec "04d" for n >= 0: at least four digits, zero padded
\* on the left.
Pad04d(n) ==
    LET d == Digits(n)
    IN  IF Len(d) >= 4 THEN d ELSE [i \in 1..(4 - Len(d)) |-> "0"] \o d

\* ---------------------------------------------------------------------------
\* Ordered dictionaries (Python dict): a sequence of [key, val] in insertion
\* order.  Assigning an existing key keeps its position.
\* ---------------------------------------------------------------------------
DictKeys(d) == {d[i].key : i \in 1..Len(d)}
DictHas(d, k) == k \in DictKeys(d)
DictPos(d, k) == CHOOSE i \in 1..Len(d) : d[i].key = k
DictGet(d, k) == d[DictPos(d, k)].val
DictSet(d, k, v) ==
    IF DictHas(d, k)
    THEN [d EXCEPT ![DictPos(d, k)].val = v]
    ELSE Append(d, [key |-> k, val |-> v])

\* ---------------------------------------------------------------------------
\* Block types and tags
\* ---------------------------------------------------------------------------
L_HEADINGS == {"TITLE", "HEAD1", "HEAD2", "HEAD3", "HEAD4"}
BlockTypes == L_HEADINGS \cup {"TEXT", "SEP", "SKIP", "COMMENT", "KEYWORD"}

\* ---------------------------------------------------------------------------
\* Scaled sizes computed by initDocument (mPx times the configured margins)
\* ---------------------------------------------------------------------------
mHead ==
    [t \in L_HEADINGS |->
        CASE t = "TITLE" -> <<50, 6>>
          [] t = "HEAD1" -> <<41, 7>>
          [] t = "HEAD2" -> <<32, 8>>
          [] t = "HEAD3" -> <<23, 9>>
          [] t = "HEAD4" -> <<14, 10>>]
sHead ==
    [t \in L_HEADINGS |->
        CASE t = "TITLE" -> "size.title"
          [] t = "HEAD1" -> "size.head1"
          [] t = "HEAD2" -> "size.head2"
          [] t = "HEAD3" -> "size.head3"
          [] t = "HEAD4" -> "size.head4"]
mText == <<1, 2>>
mMeta == <<3, 4>>
mSep == <<11, 12>>
mIndent == 20
tIndent == 15

\* ---------------------------------------------------------------------------
\* Formats
\* ---------------------------------------------------------------------------
\* A default constructed QTextBlockFormat (the format of the empty first
\* paragraph of a new or cleared QTextDocument).
DefaultBlockFmt ==
    [top |-> 0, bottom |-> 0, align |-> "default", pageBreak |-> {},
     left |-> 0, right |-> 0, indent |-> 0, lineHeight |-> "single"]

\* self._blockFmt
blockFmt ==
    [DefaultBlockFmt EXCEPT !.top = mText[1], !.bottom = mText[2],
                            !.align = "absolute", !.lineHeight = "proportional"]

\* self._charFmt
charFmt ==
    [weight |-> "normal", italic |-> FALSE, strike |-> FALSE,
     underline |-> FALSE, bg |-> "transparent", fg |-> "theme.text",
     valign |-> "normal", anchor |-> FALSE, names |-> <<>>, href |-> <<>>,
     size |-> "default"]

\* self._classes: class name -> colour
classes ==
    [c \in {"dialog", "emph"} |->
        IF c = "dialog" THEN "color.dialog" ELSE "color.emph"]

\* self._handle
handle == "0123456789abc"

\* ---------------------------------------------------------------------------
\* The output document
\* ---------------------------------------------------------------------------
EmptyDocument == << [bfmt |-> DefaultBlockFmt, runs |-> <<>>] >>

RECURSIVE TextLen(_)
TextLen(runs) ==
    IF runs = <<>> THEN 0 ELSE Len(runs[1].text) + TextLen(Tail(runs))

\* Position of a cursor moved to the end of the document.
RECURSIVE EndPosition(_)
EndPosition(d) ==
    IF Len(d) = 1 THEN TextLen(d[1].runs)
    ELSE EndPosition(SubSeq(d, 1, Len(d) - 1)) + 1 + TextLen(d[Len(d)].runs)

\* QTextCursor.insertBlock(bFmt) at the end of the document.
InsertBlock(d, bFmt) == Append(d, [bfmt |-> bFmt, runs |-> <<>>])

\* QTextCursor.setBlockFormat(bFmt) on the paragraph holding the cursor.
SetBlockFormat(d, bFmt) == [d EXCEPT ![Len(d)].bfmt = bFmt]

FirstNL(text) ==
    IF \E i \in 1..Len(text) : text[i] = "NL"
    THEN CHOOSE i \in 1..Len(text) :
            text[i] = "NL" /\ \A j \in 1..(i - 1) : text[j] # "NL"
    ELSE 0

AppendRun(d, text, cFmt) ==
    IF text = <<>> THEN d
    ELSE [d EXCEPT ![Len(d)].runs = Append(@, [text |-> text, fmt |-> cFmt])]

\* QTextCursor.insertText(text, cFmt) at the end of the document: an empty
\* text inserts nothing, every line feed starts a new paragraph that takes
\* over the block format of the current one.
RECURSIVE InsertText(_, _, _)
InsertText(d, text, cFmt) ==
    LET k == FirstNL(text)
    IN  IF k = 0 THEN AppendRun(d, text, cFmt)
        ELSE InsertText(
                InsertBlock(AppendRun(d, SubSeq(text, 1, k - 1), cFmt),
                            d[Len(d)].bfmt),
                SubSeq(text, k + 1, Len(text)), cFmt)

newBlock(d, bFmt) ==
    IF EndPosition(d) > 0 THEN InsertBlock(d, bFmt) ELSE SetBlockFormat(d, bFmt)

\* ---------------------------------------------------------------------------
\* Block format of one block: doConvert, "Styles"
\* ---------------------------------------------------------------------------
TypeMargins(tType, bFmt) ==
    IF tType \in {"COMMENT", "KEYWORD"}
    THEN [bFmt EXCEPT !.top = mMeta[1], !.bottom = mMeta[2]]
    ELSE IF tType = "SEP"
    THEN [bFmt EXCEPT !.top = mSep[1], !.bottom = mSep[2]]
    ELSE bFmt

StyleAlign(tStyle, bFmt) ==
    IF "LEFT" \in tStyle THEN [bFmt EXCEPT !.align = "left"]
    ELSE IF "RIGHT" \in tStyle THEN [bFmt EXCEPT !.align = "right"]
    ELSE IF "CENTRE" \in tStyle THEN [bFmt EXCEPT !.align = "center"]
    ELSE IF "JUSTIFY" \in tStyle THEN [bFmt EXCEPT !.align = "justify"]
    ELSE bFmt

\* The page break policy of a block format is a set of flags, empty for
\* the automatic policy; setPageBreakPolicy replaces the set.
StylePageBreak(tStyle, bFmt) ==
    LET b1 == IF "PBB" \in tStyle
              THEN [bFmt EXCEPT !.pageBreak = {"before"}] ELSE bFmt
    IN  IF "PBA" \in tStyle THEN [b1 EXCEPT !.pageBreak = {"after"}] ELSE b1

StyleZeroMargins(tStyle, bFmt) ==
    LET b1 == IF "Z_BTMMRG" \in tStyle THEN [bFmt EXCEPT !.bottom = 0] ELSE bFmt
    IN  IF "Z_TOPMRG" \in tStyle THEN [b1 EXCEPT !.top = 0] ELSE b1

StyleIndent(tStyle, bFmt) ==
    LET b1 == IF "IND_L" \in tStyle THEN [bFmt EXCEPT !.left = mIndent] ELSE bFmt
        b2 == IF "IND_R" \in tStyle THEN [b1 EXCEPT !.right = mIndent] ELSE b1
    IN  IF "IND_T" \in tStyle THEN [b2 EXCEPT !.indent = tIndent] ELSE b2

\* tStyle is the set of BlockFmt flags of the block.
BlockStyle(tType, tStyle) ==
    StyleIndent(tStyle,
        StyleZeroMargins(tStyle,
            StylePageBreak(tStyle,
                StyleAlign(tStyle, TypeMargins(tType, blockFmt)))))

\* ---------------------------------------------------------------------------
\* _genHeadStyle: <<block format, character format>> of a heading
\* ---------------------------------------------------------------------------
HeadAnchorName(nHead) == <<handle, ":", "T">> \o Pad04d(nHead)

HeadMargins(hType) == IF hType \in DOMAIN mHead THEN mHead[hType] ELSE <<0, 0>>

HeadSize(hType) == IF hType \in DOMAIN sHead THEN sHead[hType] ELSE "size.1"

HeadCharFmt(hType, nHead, conf) ==
    LET hCol == conf.colorHeads /\ hType # "TITLE"
        c1 == [charFmt EXCEPT
                  !.fg = IF hCol THEN "theme.head" ELSE "theme.text",
                  !.weight = IF conf.boldHeads THEN "bold" ELSE "normal",
                  !.size = HeadSize(hType)]
    IN  IF nHead >= 0
        THEN [c1 EXCEPT !.names = <<HeadAnchorName(nHead)>>, !.anchor = TRUE]
        ELSE c1

genHeadStyle(hType, nHead, rFmt, conf) ==
    << [rFmt EXCEPT !.top = HeadMargins(hType)[1],
                    !.bottom = HeadMargins(hType)[2]],
       HeadCharFmt(hType, nHead, conf) >>

\* ---------------------------------------------------------------------------
\* _insertFragments: one iteration of the loop over the format spans
\* ---------------------------------------------------------------------------
\* TextFmt.COL_B: the colour of the class, if the class has one.
ColorBeginResets(cFmt, data) ==
    IF data \in DOMAIN classes
    THEN [cFmt EXCEPT !.fg = classes[data]]
    ELSE [cFmt EXCEPT !.fg = "theme.text"]

ColorBegin(cFmt, data) ==
    IF data \in DOMAIN classes THEN [cFmt EXCEPT !.fg = classes[data]] ELSE cFmt

\* "Construct next format" for every tag but the footnote reference.
NextFormat(cFmt, fmt, data) ==
    CASE fmt = "B_B" -> [cFmt EXCEPT !.weight = "bold"]
      [] fmt = "B_E" -> [cFmt EXCEPT !.weight = "normal"]
      [] fmt = "I_B" -> [cFmt EXCEPT !.italic = TRUE]
      [] fmt = "I_E" -> [cFmt EXCEPT !.italic = FALSE]
      [] fmt = "D_B" -> [cFmt EXCEPT !.strike = TRUE]
      [] fmt = "D_E" -> [cFmt EXCEPT !.strike = FALSE]
      [] fmt = "U_B" -> [cFmt EXCEPT !.underline = TRUE]
      [] fmt = "U_E" -> [cFmt EXCEPT !.underline = FALSE]
      [] fmt = "M_B" -> [cFmt EXCEPT !.bg = "theme.highlight"]
      [] fmt = "M_E" -> [cFmt EXCEPT !.bg = "transparent"]
      [] fmt = "SUP_B" -> [cFmt EXCEPT !.valign = "super"]
      [] fmt = "SUP_E" -> [cFmt EXCEPT !.valign = "normal"]
      [] fmt = "SUB_B" -> [cFmt EXCEPT !.valign = "sub"]
      [] fmt = "SUB_E" -> [cFmt EXCEPT !.valign = "normal"]
      [] fmt = "COL_B" -> ColorBegin(cFmt, data)
      [] fmt = "COL_E" -> [cFmt EXCEPT !.fg = "theme.text"]
      [] fmt = "ANM_B" -> [cFmt EXCEPT !.anchor = TRUE, !.names = << <<data>> >>]
      [] fmt = "ANM_E" -> [cFmt EXCEPT !.anchor = FALSE]
      [] fmt = "HRF_B" ->
            [cFmt EXCEPT !.underline = TRUE, !.anchor = TRUE, !.href = <<data>>]
      [] fmt = "HRF_E" -> [cFmt EXCEPT !.underline = FALSE, !.anchor = FALSE]
      [] OTHER -> cFmt

\* Character format of a footnote marker whose key is in the store.
NoteMarkerFmt(index) ==
    [charFmt EXCEPT !.fg = "theme.code", !.valign = "super", !.anchor = TRUE,
                    !.href = <<"#footnote_">> \o Digits(index),
                    !.underline = TRUE]

NoteMarkerText(index) == <<"[">> \o Digits(index) \o <<"]">>

ErrMarkerText == <<"[", "E", "R", "R", "]">>

\* Index given to a referenced key: len(self._usedNotes) + 1.
NoteIndex(used, data) == Len(used) + 1

InsertNoteRegistersFirst(d, used, store, data, cFmt) ==
    LET index == NoteIndex(used, data)
    IN  IF DictHas(store, data)
        THEN << InsertText(d, NoteMarkerText(index), NoteMarkerFmt(index)),
                DictSet(used, data, index) >>
        ELSE << InsertText(d, ErrMarkerText, cFmt), DictSet(used, data, index) >>

\* The TextFmt.FNOTE branch: <<document, usedNotes>> after it.
InsertNote(d, used, store, data, cFmt) ==
    IF DictHas(store, data)
    THEN LET index == NoteIndex(used, data)
         IN  << InsertText(d, NoteMarkerText(index), NoteMarkerFmt(index)),
                DictSet(used, data, index) >>
    ELSE << InsertText(d, ErrMarkerText, cFmt), used >>

\* ---------------------------------------------------------------------------
\* State
\* ---------------------------------------------------------------------------
VARIABLES
    init,        \* self._init
    document,    \* self._document
    usedNotes,   \* self._usedNotes: key -> index, in insertion order
    blocks,      \* self._blocks, the token blocks to convert
    footnotes,   \* self._footnotes: key -> <<text, format spans>>
    conf,        \* self._boldHeads, self._colorHeads
    hist,        \* the methods called so far, in call order
    pc,          \* "idle", or the loop the running method is in
    bi,          \* doConvert: index of the block the loop is at
    iter,        \* appendFootnotes: position in and size of the iterated dict
    frag         \* _insertFragments: the locals of the running call

vars == <<init, document, usedNotes, blocks, footnotes, conf, hist, pc, bi,
          iter, frag>>

NoFrag == [temp |-> <<>>, tFmt |-> <<>>, i |-> 0, cFmt |-> charFmt,
           start |-> 0, ret |-> "idle"]
NoIter == [i |-> 0, size |-> 0]

\* Entry of _insertFragments(text, tFmt, cursor, self._charFmt).
StartFragments(text, tFmt, ret) ==
    [temp |-> Replace(text, "NL", "LSEP"), tFmt |-> tFmt, i |-> 1,
     cFmt |-> charFmt, start |-> 0, ret |-> ret]

\* ---------------------------------------------------------------------------
\* Operations
\* ---------------------------------------------------------------------------
\* initDocument.  Tokenizer.initDocument, which it calls first, is not part
\* of this file; it computes formatting values only.
InitDocument ==
    /\ pc = "idle"
    /\ Len(hist) < MaxCalls
    /\ hist' = Append(hist, "initDocument")
    /\ document' = EmptyDocument
    /\ init' = TRUE
    /\ UNCHANGED <<usedNotes, blocks, footnotes, conf, pc, bi, iter, frag>>

\* The guard of doConvert: it returns at once unless initDocument ran.
ConvertsUninitialised(flag) == TRUE

IsInit(flag) == flag

\* doConvert up to the loop over self._blocks.
DoConvert ==
    /\ pc = "idle"
    /\ Len(hist) < MaxCalls
    /\ hist' = Append(hist, "doConvert")
    /\ IF IsInit(init) THEN pc' = "convert" /\ bi' = 1
               ELSE UNCHANGED <<pc, bi>>
    /\ UNCHANGED <<init, document, usedNotes, blocks, footnotes, conf, iter,
                   frag>>

\* The block types whose text goes through _insertFragments.
UsesFragmentsAlsoSkip(tType) == tType \in {"TEXT", "COMMENT", "KEYWORD", "SKIP"}

UsesFragments(tType) == tType \in {"TEXT", "COMMENT", "KEYWORD"}

\* One block of the loop in doConvert; a text block hands over to
\* _insertFragments.
ConvertBlock ==
    /\ pc = "convert"
    /\ bi <= Len(blocks)
    /\ LET b == blocks[bi]
           bFmt == BlockStyle(b.tType, b.tStyle)
       IN  IF UsesFragments(b.tType)
           THEN /\ document' = newBlock(document, bFmt)
                /\ frag' = StartFragments(b.tText, b.tFormat, "convert")
                /\ pc' = "frag"
                /\ bi' = bi
           ELSE IF b.tType \in L_HEADINGS
           THEN LET hs == genHeadStyle(b.tType, b.nHead, bFmt, conf)
                IN  /\ document' = InsertText(newBlock(document, hs[1]),
                                              Replace(b.tText, "BR", "NL"), hs[2])
                    /\ bi' = bi + 1
                    /\ UNCHANGED <<pc, frag>>
           ELSE IF b.tType = "SEP"
           THEN /\ document' = InsertText(newBlock(document, bFmt), b.tText,
                                          charFmt)
                /\ bi' = bi + 1
                /\ UNCHANGED <<pc, frag>>
           ELSE IF b.tType = "SKIP"
           THEN /\ document' = InsertText(newBlock(document, bFmt), <<"NBSP">>,
                                          charFmt)
                /\ bi' = bi + 1
                /\ UNCHANGED <<pc, frag>>
           ELSE /\ bi' = bi + 1
                /\ UNCHANGED <<document, pc, frag>>
    /\ UNCHANGED <<init, usedNotes, blocks, footnotes, conf, hist, iter>>

\* The loop in doConvert is exhausted: doConvert returns.
ConvertDone ==
    /\ pc = "convert"
    /\ bi > Len(blocks)
    /\ pc' = "idle"
    /\ bi' = 0
    /\ UNCHANGED <<init, document, usedNotes, blocks, footnotes, conf, hist,
                   iter, frag>>

\* One format span of the loop in _insertFragments.
FragSpan ==
    /\ pc = "frag"
    /\ frag.i <= Len(frag.tFmt)
    /\ LET sp == frag.tFmt[frag.i]
           d1 == InsertText(document, PySlice(frag.temp, frag.start, sp.pos),
                            frag.cFmt)
       IN  IF sp.fmt = "FNOTE"
           THEN LET r == InsertNote(d1, usedNotes, footnotes, sp.data, frag.cFmt)
                IN  /\ document' = r[1]
                    /\ usedNotes' = r[2]
                    /\ frag' = [frag EXCEPT !.start = sp.pos, !.i = @ + 1]
           ELSE /\ document' = d1
                /\ usedNotes' = usedNotes
                /\ frag' = [frag EXCEPT
                               !.cFmt = NextFormat(frag.cFmt, sp.fmt, sp.data),
                               !.start = sp.pos, !.i = @ + 1]
    /\ UNCHANGED <<init, blocks, footnotes, conf, hist, pc, bi, iter>>

\* "Insert whatever is left in the buffer" and return to the caller.
FragEnd ==
    /\ pc = "frag"
    /\ frag.i > Len(frag.tFmt)
    /\ document' = InsertText(document, PyTail(frag.temp, frag.start), frag.cFmt)
    /\ pc' = frag.ret
    /\ frag' = NoFrag
    /\ IF frag.ret = "convert"
       THEN bi' = bi + 1 /\ iter' = iter
       ELSE iter' = [iter EXCEPT !.i = @ + 1] /\ bi' = bi
    /\ UNCHANGED <<init, usedNotes, blocks, footnotes, conf, hist>>

\* Character format of the "<index>. " label of a footnote paragraph.
NoteLabelFmt(index) ==
    [charFmt EXCEPT !.fg = "theme.code", !.anchor = TRUE,
                    !.names = << <<"footnote_">> \o Digits(index) >>]

NoteLabelText(index) == Digits(index) \o <<".", " ">>

\* self._localLookup("Footnotes")
FootnotesTitle == <<"Footnotes">>

\* "if self._usedNotes": a dict is true when it is not empty.
AnyDictIsTrue(used) == TRUE

DictIsTrue(used) == used # <<>>

\* appendFootnotes up to the loop over self._usedNotes.items().
AppendFootnotes ==
    /\ pc = "idle"
    /\ Len(hist) < MaxCalls
    /\ hist' = Append(hist, "appendFootnotes")
    /\ IF DictIsTrue(usedNotes)
       THEN LET hs == genHeadStyle("HEAD4", -1, blockFmt, conf)
            IN  /\ document' = InsertText(newBlock(document, hs[1]),
                                          FootnotesTitle, hs[2])
                /\ pc' = "notes"
                /\ iter' = [i |-> 1, size |-> Len(usedNotes)]
       ELSE UNCHANGED <<document, pc, iter>>
    /\ UNCHANGED <<init, usedNotes, blocks, footnotes, conf, bi, frag>>

\* The entries of self._usedNotes in iteration order.
NoteItems(used) == used

\* One entry of the loop in appendFootnotes; the content is handed to
\* _insertFragments.  A dict that changed size since the loop began makes
\* the iteration raise.
NoteBlock ==
    /\ pc = "notes"
    /\ iter.i <= Len(NoteItems(usedNotes))
    /\ IF Len(usedNotes) # iter.size
       THEN /\ pc' = "raised"
            /\ UNCHANGED <<document, frag, iter>>
       ELSE LET key == NoteItems(usedNotes)[iter.i].key
                index == DictGet(usedNotes, key)
            IN  IF DictHas(footnotes, key)
                THEN LET content == DictGet(footnotes, key)
                     IN  /\ document' = InsertText(newBlock(document, blockFmt),
                                                   NoteLabelText(index),
                                                   NoteLabelFmt(index))
                         /\ frag' = StartFragments(content[1], content[2],
                                                   "notes")
                         /\ pc' = "frag"
                         /\ iter' = iter
                ELSE /\ iter' = [iter EXCEPT !.i = @ + 1]
                     /\ UNCHANGED <<document, frag, pc>>
    /\ UNCHANGED <<init, usedNotes, blocks, footnotes, conf, hist, bi>>

\* The loop in appendFootnotes is exhausted: appendFootnotes returns.
NotesDone ==
    /\ pc = "notes"
    /\ iter.i > Len(NoteItems(usedNotes))
    /\ pc' = IF Len(usedNotes) # iter.size THEN "raised" ELSE "idle"
    /\ iter' = NoIter
    /\ UNCHANGED <<init, document, usedNotes, blocks, footnotes, conf, hist,
                   bi, frag>>

Next ==
    \/ InitDocument
    \/ DoConvert
    \/ ConvertBlock
    \/ ConvertDone
    \/ FragSpan
    \/ FragEnd
    \/ AppendFootnotes
    \/ NoteBlock
    \/ NotesDone

\* ---------------------------------------------------------------------------
\* Inputs
\* ---------------------------------------------------------------------------
Blk(tType, nHead, tText, tFormat, tStyle) ==
    [tType |-> tType, nHead |-> nHead, tText |-> tText, tFormat |-> tFormat,
     tStyle |-> tStyle]

Span(pos, fmt, data) == [pos |-> pos, fmt |-> fmt, data |-> data]

SeqsUpTo(S, n) == UNION {[1..k -> S] : k \in 0..n}

\* The footnote store: keys "a" and "b"; key "z" is in no store.
Store ==
    << [key |-> "a", val |-> << <<"A">>, <<>> >>],
       [key |-> "b", val |-> << <<"B", "b">>, <<Span(1, "B_B", ""), Span(2, "B_E", "")>> >>] >>

NoteSpans ==
    { <<>>,
      <<Span(1, "FNOTE", "a")>>, <<Span(1, "FNOTE", "b")>>, <<Span(1, "FNOTE", "z")>>,
      <<Span(0, "FNOTE", "a"), Span(1, "FNOTE", "a")>>,
      <<Span(0, "FNOTE", "a"), Span(1, "FNOTE", "b")>>,
      <<Span(0, "FNOTE", "b"), Span(1, "FNOTE", "a")>>,
      <<Span(0, "FNOTE", "z"), Span(1, "FNOTE", "a")>>,
      <<Span(0, "B_B", ""), Span(1, "FNOTE", "z")>> }

NoteBlocks == {Blk("TEXT", -1, <<"x">>, f, {}) : f \in NoteSpans}

InitWith(inputs, stores, confs) ==
    /\ init = FALSE
    /\ document = EmptyDocument
    /\ usedNotes = <<>>
    /\ blocks \in inputs
    /\ footnotes \in stores
    /\ conf \in confs
    /\ hist = <<>>
    /\ pc = "idle"
    /\ bi = 0
    /\ iter = NoIter
    /\ frag = NoFrag

\* Sequences of at most n blocks: fillers only, or exactly one block of
\* `rich` at any place among fillers.
OneAmong(rich, filler, n) ==
    SeqsUpTo(filler, n) \cup
    {q \in UNION {[1..k -> rich \cup filler] : k \in 1..n} :
        \E i \in 1..Len(q) :
            /\ q[i] \in rich
            /\ \A j \in 1..Len(q) : j # i => q[j] \in filler}

Filler ==
    { Blk("TEXT", -1, <<"x">>, <<Span(1, "FNOTE", "a")>>, {}),
      Blk("HEAD3", 1, <<"h">>, <<>>, {}) }

NHeadOf(t) == IF t \in L_HEADINGS THEN 0 ELSE -1

FlagSets ==
    { {"Z_TOPMRG", "PBB"}, {"Z_BTMMRG", "PBA"},
      {"Z_TOPMRG", "Z_BTMMRG", "PBB", "PBA"} }

TextFlagSets ==
    { {"LEFT", "IND_L"}, {"RIGHT", "IND_R"}, {"CENTRE", "IND_T"}, {"JUSTIFY"},
      {"LEFT", "RIGHT"} }

Ordinals == {-1, 7, 42, 123, 9999, 10000}

LayoutBlocks ==
    {Blk(t, NHeadOf(t), <<"t">>, <<>>, f) : t \in BlockTypes, f \in FlagSets}
    \cup {Blk("TEXT", -1, <<"t">>, <<>>, f) : f \in TextFlagSets}
    \cup {Blk(t, n, <<"t">>, <<>>, {}) : t \in {"TITLE", "HEAD2"}, n \in Ordinals}
    \cup {Blk(t, NHeadOf(t), <<>>, <<>>, {}) : t \in BlockTypes}
    \cup { Blk("HEAD1", 0, <<"a", "BR", "b">>, <<>>, {}),
           Blk("TEXT", -1, <<"a", "NL", "b">>, <<Span(2, "I_B", "")>>, {}),
           Blk("SKIP", -1, <<"s", "k">>, <<Span(1, "B_B", "")>>, {}),
           Blk("SKIP", -1, <<"s">>, <<Span(0, "FNOTE", "b")>>, {}) }

Confs == {[boldHeads |-> b, colorHeads |-> b] : b \in BOOLEAN}

Init == InitWith(OneAmong(LayoutBlocks, Filler, MaxBlocks), {Store}, Confs)

Spec == Init /\ [][Next]_vars

Tags ==
    {"B_B", "B_E", "I_B", "I_E", "D_B", "D_E", "U_B", "U_E", "M_B", "M_E",
     "SUP_B", "SUP_E", "SUB_B", "SUB_E", "COL_B", "COL_E", "ANM_B", "ANM_E",
     "HRF_B", "HRF_E"}

FragSpans ==
    { <<Span(1, t, "dialog")>> : t \in Tags }
    \cup
    { <<Span(0, "COL_B", "dialog"), Span(1, "COL_B", "nope"), Span(2, "COL_E", "")>>,
      <<Span(1, "COL_B", "nope"), Span(2, "COL_E", "")>>,
      <<Span(1, "COL_B", "emph"), Span(1, "COL_E", ""), Span(2, "COL_B", "dialog")>>,
      <<Span(0, "B_B", ""), Span(1, "I_B", ""), Span(2, "B_E", "")>>,
      <<Span(1, "SUP_B", ""), Span(2, "SUB_B", ""), Span(3, "SUP_E", "")>>,
      <<Span(2, "U_B", ""), Span(1, "U_E", ""), Span(5, "M_B", "")>>,
      <<Span(1, "HRF_B", "url"), Span(2, "ANM_B", "name"), Span(3, "HRF_E", "")>> }

Hello == <<"H", "e", "l", "l", "o", " ", "[", "w", "o", "r", "l", "d", "]">>

FragBlocks ==
    {Blk("TEXT", -1, <<"a", "b", "c">>, f, {}) : f \in FragSpans}
    \cup { Blk("TEXT", -1, Hello, <<Span(6, "B_B", ""), Span(11, "B_E", "")>>, {}),
           Blk("COMMENT", -1, <<"a", "NL", "b">>, <<Span(2, "D_B", "")>>, {}),
           Blk("KEYWORD", -1, <<>>, <<Span(0, "M_B", "")>>, {}) }

InitFrag ==
    InitWith(OneAmong(FragBlocks, Filler, MaxBlocks), {Store},
             {[boldHeads |-> TRUE, colorHeads |-> FALSE]})

SpecFrag == InitFrag /\ [][Next]_vars

InitNotes ==
    InitWith(SeqsUpTo(NoteBlocks, MaxBlocks), {Store},
             {[boldHeads |-> TRUE, colorHeads |-> TRUE]})

SpecNotes == InitNotes /\ [][Next]_vars

\* ---------------------------------------------------------------------------
\* Vocabulary of the properties
\* ---------------------------------------------------------------------------
Last(q) == q[Len(q)]

Range(q) == {q[i] : i \in 1..Len(q)}

FragmentTypes == {"TEXT", "COMMENT", "KEYWORD"}

IsNoteSpan(sp) == sp.fmt = "FNOTE"

\* The footnote keys referenced by a block sequence, in reference order.
RECURSIVE RefSeq(_)
RefSeq(bs) ==
    IF bs = <<>> THEN <<>>
    ELSE LET f == IF bs[1].tType \in FragmentTypes
                  THEN SelectSeq(bs[1].tFormat, IsNoteSpan) ELSE <<>>
         IN  [i \in 1..Len(f) |-> f[i].data] \o RefSeq(Tail(bs))

\* The distinct elements of a sequence in order of first occurrence.
RECURSIVE FirstOccurrences(_)
FirstOccurrences(q) ==
    IF q = <<>> THEN <<>>
    ELSE LET d == FirstOccurrences(SubSeq(q, 1, Len(q) - 1))
         IN  IF Last(q) \in Range(d) THEN d ELSE Append(d, Last(q))

InStore(k) == DictHas(footnotes, k)

\* The keys of the store referenced by self._blocks, in first reference order.
FirstRefs == FirstOccurrences(SelectSeq(RefSeq(blocks), InStore))

RECURSIVE RunsText(_)
RunsText(runs) ==
    IF runs = <<>> THEN <<>> ELSE runs[1].text \o RunsText(Tail(runs))

IsNotePara(p) ==
    /\ p.runs # <<>>
    /\ p.runs[1].fmt.names # <<>>
    /\ p.runs[1].fmt.names[1][1] = "footnote_"

IsNotesHeading(p) ==
    /\ p.runs # <<>>
    /\ p.runs[1].text = FootnotesTitle

NoteParas(d) == SelectSeq(d, IsNotePara)

\* A footnote paragraph labelled n that holds the stored content of key k.
HoldsNote(p, n, k) ==
    /\ p.runs[1].text = Digits(n) \o <<".", " ">>
    /\ RunsText(Tail(p.runs)) = Replace(DictGet(footnotes, k)[1], "NL", "LSEP")

FirstPass == <<"initDocument", "doConvert">>
FirstPassWithNotes == <<"initDocument", "doConvert", "appendFootnotes">>

\* ---------------------------------------------------------------------------
\* Footnote references (SpecNotes)
\* ---------------------------------------------------------------------------
\* C1: a reference to a key that already has an index reuses that index:
\* no step changes the index the usage registry holds for a key, and the
\* marker a re-reference emits shows the index already held.
C1_ReferenceReusesIndex ==
    [][\A k \in DictKeys(usedNotes) :
        /\ DictHas(usedNotes', k)
        /\ DictGet(usedNotes', k) = DictGet(usedNotes, k)
        /\ (/\ pc = "frag"
            /\ frag.i <= Len(frag.tFmt)
            /\ frag.tFmt[frag.i] = Span(frag.tFmt[frag.i].pos, "FNOTE", k))
           => Last(Last(document').runs).text =
                <<"[">> \o Digits(DictGet(usedNotes, k)) \o <<"]">>]_vars

\* C2: when the blocks reference one key of the store, any number of times,
\* and nothing else, initDocument, doConvert, appendFootnotes end with the
\* Footnotes heading followed by the only footnote paragraph, labelled 1.
C2_SingleKeyOneFootnote ==
    (/\ pc = "idle"
     /\ hist = FirstPassWithNotes
     /\ RefSeq(blocks) # <<>>
     /\ \E k \in DictKeys(footnotes) : Range(RefSeq(blocks)) = {k})
    => /\ Len(document) >= 2
       /\ IsNotesHeading(document[Len(document) - 1])
       /\ NoteParas(document) = <<Last(document)>>
       /\ HoldsNote(Last(document), 1, RefSeq(blocks)[1])

\* C3: appendFootnotes emits one paragraph per referenced key of the store,
\* in first reference order, the i-th labelled i.
C3_FirstUseOrderAndLabels ==
    (pc = "idle" /\ hist = FirstPassWithNotes)
    => /\ Len(NoteParas(document)) = Len(FirstRefs)
       /\ \A i \in 1..Len(FirstRefs) :
            HoldsNote(NoteParas(document)[i], i, FirstRefs[i])

\* The order alone: the i-th footnote paragraph holds the content of the
\* i-th key in first reference order, whatever its label.
FirstUseOrder ==
    (pc = "idle" /\ hist = FirstPassWithNotes)
    => /\ Len(NoteParas(document)) = Len(FirstRefs)
       /\ \A i \in 1..Len(FirstRefs) :
            RunsText(Tail(NoteParas(document)[i].runs)) =
                Replace(DictGet(footnotes, FirstRefs[i])[1], "NL", "LSEP")

\* The key "z" is referenced after a format span changed the running format.
ErrMarkerEmitted ==
    /\ pc = "idle"
    /\ hist = FirstPass
    /\ usedNotes = <<>>
    /\ Len(document) = 1
    /\ document[1].runs # <<>>
    /\ Last(document[1].runs) =
          [text |-> ErrMarkerText, fmt |-> [charFmt EXCEPT !.weight = "bold"]]

\* C6: a reference to a key that is in no store adds the run "[ERR]" in the
\* running format to the current paragraph, leaves the usage registry and
\* the running format alone, and the loop goes on to the next span.
C6_DanglingReference ==
    [][(/\ pc = "frag"
        /\ frag.i <= Len(frag.tFmt)
        /\ frag.tFmt[frag.i].fmt = "FNOTE"
        /\ ~DictHas(footnotes, frag.tFmt[frag.i].data))
       => /\ usedNotes' = usedNotes
          /\ Len(document') = Len(document)
          /\ Last(Last(document').runs) =
                [text |-> ErrMarkerText, fmt |-> frag.cFmt]
          /\ pc' = "frag"
          /\ frag' = [frag EXCEPT !.i = @ + 1,
                                  !.start = frag.tFmt[frag.i].pos]]_vars

\* ---------------------------------------------------------------------------
\* Paragraphs and block formats (Spec)
\* ---------------------------------------------------------------------------
\* The block format the block's type and flags select.
ExpectedBlockFmt(b) ==
    IF b.tType \in L_HEADINGS
    THEN genHeadStyle(b.tType, b.nHead, BlockStyle(b.tType, b.tStyle), conf)[1]
    ELSE BlockStyle(b.tType, b.tStyle)

\* No heading text holds the line-break marker, which insertText turns
\* into a paragraph break of its own.
NoHeadingBreaks ==
    \A i \in 1..Len(blocks) :
        blocks[i].tType \in L_HEADINGS => "BR" \notin Range(blocks[i].tText)

\* C4: initDocument then doConvert over n >= 1 blocks leaves n paragraphs,
\* the i-th with the block format of the i-th block (stated for blocks
\* whose heading texts hold no line-break marker).
C4_OneParagraphPerBlock ==
    (pc = "idle" /\ hist = FirstPass /\ Len(blocks) >= 1 /\ NoHeadingBreaks)
    => /\ Len(document) = Len(blocks)
       /\ \A i \in 1..Len(blocks) : document[i].bfmt = ExpectedBlockFmt(blocks[i])

\* C5: the paragraph emitted for a block with the zero-top-margin flag has
\* top margin 0, and with the zero-bottom-margin flag bottom margin 0,
\* whatever the type of the block.
C5_ZeroMarginWins ==
    [][(pc = "convert" /\ bi <= Len(blocks))
       => /\ "Z_TOPMRG" \in blocks[bi].tStyle => Last(document').bfmt.top = 0
          /\ "Z_BTMMRG" \in blocks[bi].tStyle
                => Last(document').bfmt.bottom = 0]_vars

\* The paragraphs a step writes: those added, or the empty first paragraph.
WrittenParas ==
    SubSeq(document', IF EndPosition(document) > 0 THEN Len(document) + 1 ELSE 1,
           Len(document'))

WrittenRuns == UNION {Range(WrittenParas[i].runs) : i \in 1..Len(WrittenParas)}

DigitValue(c) == CHOOSE v \in 0..9 : DigitChars[v + 1] = c

RECURSIVE DecimalValue(_)
DecimalValue(ds) ==
    IF ds = <<>> THEN 0
    ELSE 10 * DecimalValue(SubSeq(ds, 1, Len(ds) - 1)) + DigitValue(Last(ds))

\* name is the document handle, ":T", then n in at least four digits with
\* leading zeros only up to that width.
IsHeadAnchor(name, n) ==
    /\ Len(name) >= 7
    /\ SubSeq(name, 1, 3) = <<handle, ":", "T">>
    /\ LET ds == SubSeq(name, 4, Len(name))
       IN  /\ \A i \in 1..Len(ds) : ds[i] \in Range(DigitChars)
           /\ Len(ds) > 4 => ds[1] # "0"
           /\ DecimalValue(ds) = n

HeadingAnchored ==
    /\ pc = "idle"
    /\ hist = FirstPassWithNotes
    /\ Len(document) = 4
    /\ document[1].runs[1].fmt.names = << <<handle, ":", "T", "0", "0", "4", "2">> >>
    /\ IsNotesHeading(document[3])
    /\ ~document[3].runs[1].fmt.anchor

\* C7: every run of a heading block with ordinal n >= 0 is an anchor whose
\* only name is the handle, ":T" and n padded to four digits; a heading
\* with ordinal -1, the Footnotes heading included, carries no anchor.
C7_HeadingAnchor ==
    [][/\ (pc = "convert" /\ bi <= Len(blocks) /\ blocks[bi].tType \in L_HEADINGS)
          => \A r \in WrittenRuns :
                IF blocks[bi].nHead >= 0
                THEN /\ r.fmt.anchor
                     /\ Len(r.fmt.names) = 1
                     /\ IsHeadAnchor(r.fmt.names[1], blocks[bi].nHead)
                ELSE ~r.fmt.anchor /\ r.fmt.names = <<>>
       /\ (pc = "idle" /\ pc' = "notes")
          => /\ WrittenRuns # {}
             /\ \A r \in WrittenRuns :
                  r.text = FootnotesTitle /\ ~r.fmt.anchor /\ r.fmt.names = <<>>]_vars

SkipRendered ==
    /\ pc = "convert"
    /\ hist = FirstPass
    /\ bi = 2
    /\ blocks[1].tType = "SKIP"
    /\ blocks[1].tFormat # <<>>
    /\ blocks[1].tText # <<>>
    /\ document = << [bfmt |-> blockFmt,
                      runs |-> << [text |-> <<"NBSP">>, fmt |-> charFmt] >>] >>

\* C8: a Skip block writes one paragraph holding one run, the non-breaking
\* space in the base character format; its spans are not applied and the
\* usage registry is unchanged.
C8_SkipBlock ==
    [][(pc = "convert" /\ bi <= Len(blocks) /\ blocks[bi].tType = "SKIP")
       => /\ Len(WrittenParas) = 1
          /\ WrittenParas[1].runs = << [text |-> <<"NBSP">>, fmt |-> charFmt] >>
          /\ usedNotes' = usedNotes
          /\ pc' = "convert"
          /\ bi' = bi + 1
          /\ frag' = frag]_vars

EmptyPassDone ==
    pc = "idle" /\ hist = FirstPassWithNotes /\ blocks = <<>>

\* C9: initDocument, doConvert over no blocks, appendFootnotes leave the
\* document a single empty paragraph: no Footnotes heading, no footnote.
C9_EmptyPass ==
    (pc = "idle" /\ hist = FirstPassWithNotes /\ blocks = <<>>)
    => /\ document = EmptyDocument
       /\ usedNotes = <<>>

\* ---------------------------------------------------------------------------
\* Inline formats (SpecFrag)
\* ---------------------------------------------------------------------------
\* A colour end has reset the colour an unknown class left in place.
UnknownColourClosed ==
    /\ pc = "frag"
    /\ frag.i = 4
    /\ frag.tFmt[1] = Span(0, "COL_B", "dialog")
    /\ frag.tFmt[2].fmt = "COL_B"
    /\ frag.tFmt[2].data \notin DOMAIN classes
    /\ frag.tFmt[3].fmt = "COL_E"
    /\ frag.cFmt.fg = "theme.text"
    /\ Last(Last(document).runs).fmt.fg = classes["dialog"]

\* C10: a colour begin with a class that has no colour leaves the running
\* format as it is and the loop goes on; a colour end sets the running
\* foreground to the theme text colour whatever came before.
C10_UnknownColourClass ==
    [][(pc = "frag" /\ frag.i <= Len(frag.tFmt))
       => /\ (/\ frag.tFmt[frag.i].fmt = "COL_B"
              /\ frag.tFmt[frag.i].data \notin DOMAIN classes)
             => /\ frag'.cFmt = frag.cFmt
                /\ pc' = "frag"
                /\ frag'.i = frag.i + 1
          /\ frag.tFmt[frag.i].fmt = "COL_E"
             => /\ frag'.cFmt = [frag.cFmt EXCEPT !.fg = "theme.text"]
                /\ pc' = "frag"
                /\ frag'.i = frag.i + 1]_vars

\* The block of the scenario: "Hello [world]", bold from offset 6 to 11.
HelloBlock ==
    Blk("TEXT", -1, Hello, <<Span(6, "B_B", ""), Span(11, "B_E", "")>>, {})

HelloRendered ==
    pc = "idle" /\ hist = FirstPass /\ blocks = <<HelloBlock>>

Bold == [charFmt EXCEPT !.weight = "bold"]

\* C11 as stated: the block renders as "Hello " normal, "world" bold,
\* "]" normal, three runs in one paragraph.
C11_HelloWorldAsStated ==
    HelloRendered
    => /\ Len(document) = 1
       /\ document[1].runs =
            << [text |-> <<"H", "e", "l", "l", "o", " ">>, fmt |-> charFmt],
               [text |-> <<"w", "o", "r", "l", "d">>, fmt |-> Bold],
               [text |-> <<"]">>, fmt |-> charFmt] >>

\* C11, amended: the block renders as three runs in one paragraph, cut at
\* the offsets 6 and 11 of the text: "Hello " normal, "[worl" bold, "d]"
\* normal.
C11_HelloWorld ==
    HelloRendered
    => /\ Len(document) = 1
       /\ document[1].runs =
            << [text |-> <<"H", "e", "l", "l", "o", " ">>, fmt |-> charFmt],
               [text |-> <<"[", "w", "o", "r", "l">>, fmt |-> Bold],
               [text |-> <<"d", "]">>, fmt |-> charFmt] >>

\* C12: the indices the usage registry holds are pairwise distinct and are
\* exactly 1..n, n the number of used keys.
C12_IndicesAreOneToN ==
    /\ \A i, j \in 1..Len(usedNotes) :
            i # j => usedNotes[i].val # usedNotes[j].val
    /\ {usedNotes[i].val : i \in 1..Len(usedNotes)} = 1..Len(usedNotes)

\* The spans hold no footnote reference and their offsets are in the text
\* and do not decrease.
WellFormedSpans(text, tFmt) ==
    /\ \A i \in 1..Len(tFmt) :
            /\ tFmt[i].fmt # "FNOTE"
            /\ tFmt[i].pos >= 0
            /\ tFmt[i].pos <= Len(text)
    /\ \A i, j \in 1..Len(tFmt) : i < j => tFmt[i].pos <= tFmt[j].pos

\* offset(j): 0, the offsets of the spans, the length of the text.
OffsetOf(text, tFmt, j) ==
    IF j = 0 THEN 0 ELSE IF j > Len(tFmt) THEN Len(text) ELSE tFmt[j].pos

\* Slice j of the text, j in 1..k+1, line feeds shown as line separators.
SliceOf(text, tFmt, j) ==
    SubSeq(Replace(text, "NL", "LSEP"), OffsetOf(text, tFmt, j - 1) + 1,
           OffsetOf(text, tFmt, j))

\* The base format after the first n spans were applied in order.
RECURSIVE FormatAfter(_, _)
FormatAfter(tFmt, n) ==
    IF n = 0 THEN charFmt
    ELSE NextFormat(FormatAfter(tFmt, n - 1), tFmt[n].fmt, tFmt[n].data)

\* The runs of the slices 1..n: slice j in the format after j - 1 spans;
\* an empty slice leaves no run.
RECURSIVE SliceRuns(_, _, _)
SliceRuns(text, tFmt, n) ==
    IF n = 0 THEN <<>>
    ELSE LET before == SliceRuns(text, tFmt, n - 1)
             slice == SliceOf(text, tFmt, n)
         IN  IF slice = <<>> THEN before
             ELSE Append(before,
                         [text |-> slice, fmt |-> FormatAfter(tFmt, n - 1)])

\* The text and spans of the entry the loop of appendFootnotes is at.
NoteContent(i) == DictGet(footnotes, usedNotes[i].key)

\* Slices and formats of a call of _insertFragments that wrote into a new
\* paragraph (offset 0) or after the label of a footnote (offset 1).
SlicesWritten(text, tFmt, n, offset) ==
    /\ SubSeq(Last(document).runs, offset + 1, Len(Last(document).runs)) =
            SliceRuns(text, tFmt, n)
    /\ n = Len(tFmt) + 1
        => RunsText(SliceRuns(text, tFmt, n)) = Replace(text, "NL", "LSEP")

\* A block with three spans, the first at offset 0, is rendered.
SlicesRendered ==
    /\ pc = "convert"
    /\ hist = FirstPass
    /\ bi = 2
    /\ blocks[1].tType = "TEXT"
    /\ Len(blocks[1].tFormat) = 3
    /\ blocks[1].tFormat[1].pos = 0
    /\ WellFormedSpans(blocks[1].tText, blocks[1].tFormat)
    /\ Len(document[1].runs) = 3
    /\ document[1].runs[3].fmt # charFmt

\* C13: for well formed spans without footnote reference _insertFragments
\* inserts the k+1 slices of the text in order, slice j in the base format
\* with the spans before it applied; the slices make up the whole text, and
\* every call starts again from the base format.
C13_SlicesAndFormats ==
    /\ (pc = "frag" /\ frag.ret = "convert"
        /\ WellFormedSpans(blocks[bi].tText, blocks[bi].tFormat))
       => /\ SlicesWritten(blocks[bi].tText, blocks[bi].tFormat, frag.i - 1, 0)
          /\ frag.cFmt = FormatAfter(blocks[bi].tFormat, frag.i - 1)
    /\ (pc = "convert" /\ bi > 1 /\ blocks[bi - 1].tType \in FragmentTypes
        /\ WellFormedSpans(blocks[bi - 1].tText, blocks[bi - 1].tFormat))
       => SlicesWritten(blocks[bi - 1].tText, blocks[bi - 1].tFormat,
                        Len(blocks[bi - 1].tFormat) + 1, 0)
    /\ (pc = "frag" /\ frag.ret = "notes"
        /\ WellFormedSpans(NoteContent(iter.i)[1], NoteContent(iter.i)[2]))
       => /\ SlicesWritten(NoteContent(iter.i)[1], NoteContent(iter.i)[2],
                           frag.i - 1, 1)
          /\ frag.cFmt = FormatAfter(NoteContent(iter.i)[2], frag.i - 1)
    /\ (pc = "notes" /\ iter.i > 1
        /\ WellFormedSpans(NoteContent(iter.i - 1)[1], NoteContent(iter.i - 1)[2]))
       => SlicesWritten(NoteContent(iter.i - 1)[1], NoteContent(iter.i - 1)[2],
                        Len(NoteContent(iter.i - 1)[2]) + 1, 1)

\* ---------------------------------------------------------------------------
\* Passes (SpecNotes)
\* ---------------------------------------------------------------------------
IsNoteMarker(r) == r.fmt.href # <<>> /\ r.fmt.href[1] = "#footnote_"

RECURSIVE AllRuns(_)
AllRuns(d) == IF d = <<>> THEN <<>> ELSE d[1].runs \o AllRuns(Tail(d))

\* The footnote markers of a document, in document order.
NoteMarkers(d) == SelectSeq(AllRuns(d), IsNoteMarker)

SecondPass == <<"initDocument", "doConvert", "initDocument", "doConvert">>

\* C14: after initDocument is run again and the same blocks are converted
\* again, the footnote indices start again at 1, as on a new converter: the
\* first marker of the document is [1] and links to footnote_1, and the
\* first used key holds index 1.
C14_ReinitStartsAtOne ==
    (pc = "idle" /\ hist = SecondPass /\ FirstRefs # <<>>)
    => /\ NoteMarkers(document) # <<>>
       /\ NoteMarkers(document)[1].text = <<"[", "1", "]">>
       /\ NoteMarkers(document)[1].fmt.href = <<"#footnote_", "1">>

\* The references of self._blocks to keys of the store, in reference order:
\* one marker each.
StoredRefs == SelectSeq(RefSeq(blocks), InStore)

\* The footnote paragraphs whose anchor name is the target of the link href.
Targets(d, href) ==
    {j \in 1..Len(NoteParas(d)) :
        NoteParas(d)[j].runs[1].fmt.names =
            << <<"footnote_">> \o SubSeq(href, 2, Len(href)) >>}

\* C15: after initDocument, doConvert, appendFootnotes every marker links
\* to the anchor of exactly one footnote paragraph, and that paragraph
\* holds the content of the key the marker was emitted for.
C15_MarkersResolve ==
    (pc = "idle" /\ hist = FirstPassWithNotes)
    => /\ Len(NoteMarkers(document)) = Len(StoredRefs)
       /\ \A i \in 1..Len(StoredRefs) :
            LET t == Targets(document, NoteMarkers(document)[i].fmt.href)
            IN  /\ Cardinality(t) = 1
                /\ \A j \in t :
                     RunsText(Tail(NoteParas(document)[j].runs)) =
                        Replace(DictGet(footnotes, StoredRefs[i])[1], "NL", "LSEP")

\* doConvert was called on a non-empty block list, initDocument never.
ConvertedUninitialised ==
    /\ ~init
    /\ pc = "idle"
    /\ blocks # <<>>
    /\ hist = <<"doConvert">>

\* C16: as long as initDocument has not been called, doConvert is a no-op:
\* after any number of calls, also with blocks to convert, the document is
\* as constructed, no footnote is registered and no conversion is under way.
C16_ConvertBeforeInit ==
    (~init /\ \E i \in 1..Len(hist) : hist[i] = "doConvert")
    => /\ document = EmptyDocument
       /\ usedNotes = <<>>
       /\ pc = "idle"

\* C17: the paragraph emitted for a block with the page-break-before flag
\* carries the page-break-before policy, and with the page-break-after flag
\* the page-break-after policy, also when the block has both flags.
C17_PageBreakPolicies ==
    [][(pc = "convert" /\ bi <= Len(blocks))
       => /\ "PBB" \in blocks[bi].tStyle
                => "before" \in Last(document').bfmt.pageBreak
          /\ "PBA" \in blocks[bi].tStyle
                => "after" \in Last(document').bfmt.pageBreak]_vars

====
